---------------------------- MODULE Spec2Model ----------------------------
(***************************************************************************)
(* A model of src/fdm/fdm3t.py: the transient 3D finite difference         *)
(* groundwater model fdm3t() and the class Fdm3t that runs it.             *)
(*                                                                         *)
(* Arithmetic is exact.  A number is a pair <<n, d>> standing for n/d,     *)
(* in lowest terms with d >= 0.  The three pairs with d = 0 stand for the  *)
(* IEEE values the code produces and tests for: <<1,0>> is +inf,           *)
(* <<-1,0>> is -inf and <<0,0>> is NaN.                                    *)
(*                                                                         *)
(* Conductivity, specific storage and prescribed flow are counted in units *)
(* of 1e-20 (the conductivity floor of lines 83-85), so that the floor is  *)
(* the number 1; heads, lengths and times are in the code's own units.     *)
(* The linear system is homogeneous in these three quantities, so the      *)
(* heads are those the code computes for the inputs k*1e-20, Ss*1e-20 and  *)
(* FQ*1e-20, and the flows are the code's flows divided by 1e-20.          *)
(***************************************************************************)
EXTENDS Integers, Sequences, FiniteSets, TLC

VARIABLES
    entry,      \* which entry point was called: "fdm3t" or "Fdm3t"
    pc,         \* position in the program
    err,        \* the exception raised ("" while none)
    gr,         \* the grid object
    t,          \* the time vector
    kxyz,       \* the conductivity argument as passed by the caller
    kx, ky, kz, \* the conductivity arrays fdm3t works on (the caller's arrays)
    Ss, FQ, HI, IBOUND, \* the remaining input arrays
    epsilon,    \* the epsilon argument of the entry point
    eps,        \* the epsilon fdm3t itself receives
    Cx, Cy, Cz, \* conductances between adjacent cells
    Cs,         \* storage term
    A,          \* system matrix
    Phi, Q, Qs, Qx, Qy, Qz,  \* output arrays
    idt         \* index of the current time step

vars == << entry, pc, err, gr, t, kxyz, kx, ky, kz, Ss, FQ, HI, IBOUND,
           epsilon, eps, Cx, Cy, Cz, Cs, A, Phi, Q, Qs, Qx, Qy, Qz, idt >>

---------------------------------------------------------------------------
(* Exact arithmetic with inf and NaN *)

Abs(n) == IF n < 0 THEN -n ELSE n

Sign(n) == IF n > 0 THEN 1 ELSE IF n < 0 THEN -1 ELSE 0

RECURSIVE GCD(_, _)
GCD(a, b) == IF b = 0 THEN a ELSE GCD(b, a % b)

Norm(n, d) ==
    IF d = 0 THEN << Sign(n), 0 >>
    ELSE LET g == GCD(Abs(n), Abs(d))
             s == Sign(d)
         IN  << (s * n) \div g, (s * d) \div g >>

Rat(n) == << n, 1 >>
Frac(n, d) == Norm(n, d)
Zero == << 0, 1 >>
One == << 1, 1 >>
Half == << 1, 2 >>
Inf == << 1, 0 >>
NaN == << 0, 0 >>

IsNaN(a) == a[1] = 0 /\ a[2] = 0
IsInf(a) == a[1] # 0 /\ a[2] = 0
IsFinite(a) == a[2] # 0

RAdd(a, b) ==
    IF IsInf(a) /\ IsInf(b)
    THEN (IF a[1] = b[1] THEN a ELSE NaN)
    ELSE IF a[2] = 0 THEN a
    ELSE IF b[2] = 0 THEN b
    ELSE LET g == GCD(a[2], b[2])
         IN  Norm(a[1] * (b[2] \div g) + b[1] * (a[2] \div g), (a[2] \div g) * b[2])

RNeg(a) == << -a[1], a[2] >>
RSub(a, b) == RAdd(a, RNeg(b))
RMul(a, b) ==
    IF a[2] = 0 \/ b[2] = 0 THEN << Sign(a[1]) * Sign(b[1]), 0 >>
    ELSE LET g1 == GCD(Abs(a[1]), b[2])
             g2 == GCD(Abs(b[1]), a[2])
         IN  << (a[1] \div g1) * (b[1] \div g2), (a[2] \div g2) * (b[2] \div g1) >>
RInv(a) == Norm(a[2], a[1])
RDiv(a, b) == RMul(a, RInv(b))
\* a < b for two finite numbers (a comparison with NaN is False)
RLt(a, b) == IsFinite(a) /\ IsFinite(b) /\ a[1] * b[2] < b[1] * a[2]

\* the function f, evaluated once for all of its domain
Table(f) == f @@ << >>

SetMin(S) == CHOOSE x \in S : \A y \in S : x <= y

\* the sum of f[x] over x in S, in index order
RECURSIVE RSum(_, _)
RSum(f, S) ==
    IF S = {} THEN Zero
    ELSE LET x == SetMin(S) IN RAdd(f[x], RSum(f, S \ {x}))


\* the elements of a finite set of integers as a sequence, ascending
RECURSIVE SetToSeq(_)
SetToSeq(S) ==
    IF S = {} THEN << >>
    ELSE LET x == SetMin(S) IN << x >> \o SetToSeq(S \ {x})

---------------------------------------------------------------------------
(* The grid object gr (class Grid, an external collaborator).              *)
(* gr.shape = (nz, ny, nx); gr.NOD numbers the cells 0..nod-1 in C order;  *)
(* an array of gr.shape is modelled by the function from cell number to    *)
(* value that its ravel() is.                                              *)

Nod(g) == g.nz * g.ny * g.nx
Cells(g) == 0 .. (Nod(g) - 1)
IX(g, c) == c % g.nx
IY(g, c) == (c \div g.nx) % g.ny
IZ(g, c) == c \div (g.nx * g.ny)

\* Faces are named by the cell on their low-index side.
\* IW = NOD[:,:,:-1] and IE = NOD[:,:,1:]
XFaces(g) == { c \in Cells(g) : IX(g, c) < g.nx - 1 }
IE(g, c) == c + 1
\* IN = NOD[:,:-1,:] and IS = NOD[:,1:,:]
YFaces(g) == { c \in Cells(g) : IY(g, c) < g.ny - 1 }
IS(g, c) == c + g.nx
\* IT = NOD[:-1,:,:] and IB = NOD[1:,:,:]
ZFaces(g) == { c \in Cells(g) : IZ(g, c) < g.nz - 1 }
IB(g, c) == c + g.nx * g.ny

---------------------------------------------------------------------------
(* Boundary classification, lines 87-89 *)

active(ib) == [ c \in DOMAIN ib |-> ib[c] > 0 ]
inact(ib) == [ c \in DOMAIN ib |-> ib[c] = 0 ]
fxhd(ib) == [ c \in DOMAIN ib |-> ib[c] < 0 ]

---------------------------------------------------------------------------
(* Conductivity floor, lines 83-85: k[k < 1e-20] = 1e-20 *)

KFloor == 1

Clamp(k) == [ c \in DOMAIN k |-> IF RLt(k[c], Rat(KFloor)) THEN Rat(KFloor) ELSE k[c] ]

---------------------------------------------------------------------------
(* Half cell flow resistances, lines 92-116.  In axial mode the grid's     *)
(* transcendental factors are attributes of the grid:                      *)
(*   g.lnOuter[ix] = ln(x[ix+1] / xm[ix]) / (2 pi)                         *)
(*   g.lnInner[ix] = ln(xm[ix] / x[ix]) / (2 pi)   (x[0] guarded, l. 103)  *)
(*   g.ring[ix]    = pi (x[ix+1]^2 - x[ix]^2)                              *)

Rx1(g, k, ib) ==
    [ c \in Cells(g) |->
        IF inact(ib)[c] THEN Inf
        ELSE IF ~ g.axial
             THEN RDiv(RDiv(RMul(Half, g.dx[IX(g, c)]),
                            RMul(g.dy[IY(g, c)], g.DZ[c])), k[c])
             ELSE RMul(RInv(RMul(k[c], g.DZ[c])), g.lnOuter[IX(g, c)]) ]

Rx2(g, k, ib) ==
    [ c \in Cells(g) |->
        IF inact(ib)[c] THEN Inf
        ELSE IF ~ g.axial
             THEN Rx1(g, k, ib)[c]
             ELSE RMul(RInv(RMul(k[c], g.DZ[c])), g.lnInner[IX(g, c)]) ]

Ry1(g, k, ib) ==
    [ c \in Cells(g) |->
        IF inact(ib)[c] THEN Inf
        ELSE IF ~ g.axial
             THEN RDiv(RDiv(RMul(Half, g.dy[IY(g, c)]),
                            RMul(g.DZ[c], g.dx[IX(g, c)])), k[c])
             ELSE Inf ]

Rz1(g, k, ib) ==
    [ c \in Cells(g) |->
        IF inact(ib)[c] THEN Inf
        ELSE IF ~ g.axial
             THEN RDiv(RDiv(RMul(Half, g.DZ[c]),
                            RMul(g.dx[IX(g, c)], g.dy[IY(g, c)])), k[c])
             ELSE RDiv(RMul(Half, g.DZ[c]), RMul(g.ring[IX(g, c)], k[c])) ]

(* Conductances between adjacent cells, lines 119-121 *)

\* Cx = 1 / (Rx1[:,:,1:] + Rx2[:,:,:-1])
CxOf(g, k, ib) ==
    [ c \in XFaces(g) |-> RInv(RAdd(Rx1(g, k, ib)[IE(g, c)], Rx2(g, k, ib)[c])) ]

\* Cy = 1 / (Ry1[:,1:,:] + Ry2[:,:-1,:]), Ry2 = Ry1
CyOf(g, k, ib) ==
    [ c \in YFaces(g) |-> RInv(RAdd(Ry1(g, k, ib)[IS(g, c)], Ry1(g, k, ib)[c])) ]

\* Cz = 1 / (Rz1[1:,:,:] + Rz2[:-1,:,:]), Rz2 = Rz1
CzOf(g, k, ib) ==
    [ c \in ZFaces(g) |-> RInv(RAdd(Rz1(g, k, ib)[IB(g, c)], Rz1(g, k, ib)[c])) ]

\* Storage term, line 124: Cs = (Ss * gr.Volume / epsilon).ravel()
CsOf(g, ss, e) == [ c \in Cells(g) |-> RDiv(RMul(ss[c], g.Volume[c]), e) ]

---------------------------------------------------------------------------
(* System matrix, lines 126-143 *)

\* The (data, (rowind, colind)) triplets handed to csc_matrix, in order:
\* data R(Cx),R(Cx),R(Cy),R(Cy),R(Cz),R(Cz); rows IE,IW,IN,IS,IB,IT;
\* columns IW,IE,IS,IN,IT,IB.
Triplets(g, cx, cy, cz) ==
    LET xs == SetToSeq(XFaces(g))
        ys == SetToSeq(YFaces(g))
        zs == SetToSeq(ZFaces(g))
    IN  [ p \in 1 .. Len(xs) |-> [ row |-> IE(g, xs[p]), col |-> xs[p], data |-> cx[xs[p]] ] ]
     \o [ p \in 1 .. Len(xs) |-> [ row |-> xs[p], col |-> IE(g, xs[p]), data |-> cx[xs[p]] ] ]
     \o [ p \in 1 .. Len(ys) |-> [ row |-> ys[p], col |-> IS(g, ys[p]), data |-> cy[ys[p]] ] ]
     \o [ p \in 1 .. Len(ys) |-> [ row |-> IS(g, ys[p]), col |-> ys[p], data |-> cy[ys[p]] ] ]
     \o [ p \in 1 .. Len(zs) |-> [ row |-> IB(g, zs[p]), col |-> zs[p], data |-> cz[zs[p]] ] ]
     \o [ p \in 1 .. Len(zs) |-> [ row |-> zs[p], col |-> IB(g, zs[p]), data |-> cz[zs[p]] ] ]

\* csc_matrix((data, (rowind, colind)), (nod, nod)): entries given more than
\* once are summed.  The result is a record of the stored positions and the
\* values there (zero elsewhere).
CscMatrix(g, trip) ==
    LET at(i, j) == { p \in DOMAIN trip : trip[p].row = i /\ trip[p].col = j }
    IN  [ stored |-> { << i, j >> \in Cells(g) \X Cells(g) : at(i, j) # {} },
          val |-> [ i \in Cells(g) |-> [ j \in Cells(g) |->
                      RSum([ p \in DOMAIN trip |-> trip[p].data ], at(i, j)) ] ] ]

\* np.array(A.sum(axis=1)).ravel()
RowSum(g, m) ==
    [ i \in Cells(g) |->
        RSum(m.val[i], { j \in Cells(g) : << i, j >> \in m.stored }) ]

\* sp.diags(d)
Diags(g, d) ==
    [ stored |-> { << i, i >> : i \in Cells(g) },
      val |-> [ i \in Cells(g) |-> [ j \in Cells(g) |-> IF i = j THEN d[i] ELSE Zero ] ] ]

\* the sum of two sparse matrices
MAdd(g, m1, m2) ==
    [ stored |-> m1.stored \cup m2.stored,
      val |-> [ i \in Cells(g) |-> [ j \in Cells(g) |-> RAdd(m1.val[i][j], m2.val[i][j]) ] ] ]

MNeg(g, m) ==
    [ stored |-> m.stored,
      val |-> [ i \in Cells(g) |-> [ j \in Cells(g) |->
                  IF << i, j >> \in m.stored THEN RNeg(m.val[i][j]) ELSE Zero ] ] ]

\* Assemble with the diagonal left out
AssembleNoDiagonal(g, cx, cy, cz) == MNeg(g, CscMatrix(g, Triplets(g, cx, cy, cz)))

\* lines 138-143: A = -A + sp.diags(A.sum(axis=1))
Assemble(g, cx, cy, cz) ==
    LET A0 == CscMatrix(g, Triplets(g, cx, cy, cz))
    IN  MAdd(g, MNeg(g, A0), Diags(g, RowSum(g, A0)))

\* m[:, cols].dot(v[cols]) and m.dot(v): only stored entries take part
Dot(g, m, v, cols) ==
    [ i \in Cells(g) |->
        RSum([ j \in Cells(g) |-> RMul(m.val[i][j], v[j]) ],
             { j \in cols : << i, j >> \in m.stored }) ]

---------------------------------------------------------------------------
(* spsolve(M, b): the solution of M x = b by elimination, for the rows R   *)
(* and columns C of M (two sets of the same size).  A singular M gives     *)
(* sing = TRUE, and spsolve then returns a vector of NaN.                  *)

RECURSIVE Eliminate(_, _, _, _)
Eliminate(M, b, R, C) ==
    IF C = {} THEN [ sing |-> FALSE, x |-> << >> ]
    ELSE
      LET p == SetMin(C)
          cand == { r \in R : M[r][p] # Zero }
      IN  IF cand = {} THEN [ sing |-> TRUE, x |-> << >> ]
          ELSE
            LET r == SetMin(cand)
                R1 == R \ {r}
                C1 == C \ {p}
                f == Table([ i \in R1 |-> RDiv(M[i][p], M[r][p]) ])
                M1 == Table([ i \in R1 |-> Table([ j \in C1 |-> RSub(M[i][j], RMul(f[i], M[r][j])) ]) ])
                b1 == Table([ i \in R1 |-> RSub(b[i], RMul(f[i], b[r])) ])
                sub == Eliminate(M1, b1, R1, C1)
            IN  IF sub.sing THEN sub
                ELSE [ sing |-> FALSE,
                       x |-> Table([ j \in C |->
                               IF j = p
                               THEN RDiv(RSub(b[r], RSum([ q \in C1 |-> RMul(M[r][q], sub.x[q]) ], C1)),
                                         M[r][p])
                               ELSE sub.x[j] ]) ]

SpSolve(M, b, U) ==
    LET res == Eliminate(M, b, U, U)
    IN  IF res.sing THEN [ c \in U |-> NaN ] ELSE res.x

---------------------------------------------------------------------------
(* One pass of the loop body, lines 167-184: the heads solved for, written *)
(* to row it of Phi, and the flows derived from that row.  phiOld is       *)
(* Phi[it-1]; phiRow is row it of Phi as the step finds it.                *)

\* line 170: RHS = FQ - (A + sp.diags(Cs / dt))[:,fxhd].dot(Phi[it-1][fxhd])
RHS(g, a, cs, fq, ib, phiOld, dt) ==
    LET M == MAdd(g, a, Diags(g, [ c \in Cells(g) |-> RDiv(cs[c], dt) ]))
        fx == { c \in Cells(g) : fxhd(ib)[c] }
        d == Dot(g, M, phiOld, fx)
    IN  [ c \in Cells(g) |-> RSub(fq[c], d[c]) ]

\* lines 172-173: Phi[it][active] = spsolve(...)
SolveHeads(g, a, cs, fq, ib, phiOld, phiRow, dt) ==
    LET M == MAdd(g, a, Diags(g, [ c \in Cells(g) |-> RDiv(cs[c], dt) ]))
        act == { c \in Cells(g) : active(ib)[c] }
        rhs == RHS(g, a, cs, fq, ib, phiOld, dt)
        b == Table([ c \in act |-> RAdd(rhs[c], RMul(RDiv(cs[c], dt), phiOld[c])) ])
        \* (A + sp.diags(Cs / dt))[active][:,active]
        Maa == Table([ i \in act |-> Table([ j \in act |-> M.val[i][j] ]) ])
        x == SpSolve(Maa, b, act)
    IN  Table([ c \in Cells(g) |-> IF c \in act THEN x[c] ELSE phiRow[c] ])

\* line 176: Q[idt] = A.dot(Phi[it])
NetInflow(g, a, phiRow) == Dot(g, a, phiRow, Cells(g))

\* line 178: Qs[idt] = -Cs/dt * (Phi[it]-Phi[it-1])
StorageRelease(g, cs, phiOld, phiRow, dt) ==
    [ c \in Cells(g) |-> RMul(RDiv(RNeg(cs[c]), dt), RSub(phiRow[c], phiOld[c])) ]

\* line 182: Qx[idt] = -np.diff(Phi[it].reshape(gr.shape), axis=2) * Cx
FlowX(g, cx, phiRow) ==
    [ c \in XFaces(g) |-> RMul(RNeg(RSub(phiRow[IE(g, c)], phiRow[c])), cx[c]) ]

\* line 183: Qy[idt] = +np.diff(Phi[it].reshape(gr.shape), axis=1) * Cy
FlowY(g, cy, phiRow) ==
    [ c \in YFaces(g) |-> RMul(RSub(phiRow[IS(g, c)], phiRow[c]), cy[c]) ]

\* line 184: Qz[idt] = +np.diff(Phi[it].reshape(gr.shape), axis=0) * Cz
FlowZ(g, cz, phiRow) ==
    [ c \in ZFaces(g) |-> RMul(RSub(phiRow[IB(g, c)], phiRow[c]), cz[c]) ]

(* Update of the head to the end of the time step, lines 187-189 *)

\* BlendActive without the old head as its starting point
BlendNoOld(old, new, e) == RDiv(RSub(new, old), e)

\* BlendActive starting from the new head instead of the old one
BlendFromNew(old, new, e) == RAdd(new, RDiv(RSub(new, old), e))

\* line 187: Phi[it][active] = Phi[it-1][active] + (Phi[it]-Phi[it-1])[active]/epsilon
BlendActive(old, new, e) == RAdd(old, RDiv(RSub(new, old), e))

\* KeepFixed leaving the row as it is
KeepFixedDropped(old, new) == new

\* line 188: Phi[it][fxhd] = Phi[it-1][fxhd]
KeepFixed(old, new) == old

\* line 189: Phi[it][inact] = np.nan
MaskInactive(old, new) == NaN

UpdateHead(g, ib, phiOld, phiRow, e) ==
    [ c \in Cells(g) |->
        IF active(ib)[c] THEN BlendActive(phiOld[c], phiRow[c], e)
        ELSE IF fxhd(ib)[c] THEN KeepFixed(phiOld[c], phiRow[c])
        ELSE MaskInactive(phiOld[c], phiRow[c]) ]

\* np.zeros of one row per cell (or face) in S
Zeros(S) == [ c \in S |-> Zero ]

\* The head at time index i of a call with time vector tt: Phi[0] = hi, and
\* each pass of the loop (lines 165-189) makes row i from row i-1
RECURSIVE HeadAt(_, _, _, _, _, _, _, _, _)
HeadAt(g, a, cs, fq, ib, hi, tt, e, i) ==
    IF i = 0 THEN hi
    ELSE LET old == HeadAt(g, a, cs, fq, ib, hi, tt, e, i - 1)
             dt == Rat(tt[i + 1] - tt[i])
             row == SolveHeads(g, a, cs, fq, ib, old, Zeros(Cells(g)), dt)
         IN  UpdateHead(g, ib, old, row, e)

---------------------------------------------------------------------------
(* Input arrays.  An array is a record of its shape and its ravel()ed      *)
(* values v.  Three shapes are told apart: "grid" is gr.shape, "flat" is   *)
(* (gr.nod,), another shape of the same size, and "long" is (gr.nod+1,),   *)
(* a shape of another size.                                                *)

Arr(shape, v) == [ shape |-> shape, v |-> v ]
None == Arr("none", << >>)
Empty == << >>

\* the conductivity argument: a bare array, or a tuple of arrays
Bare(a) == [ tuple |-> FALSE, a |-> << a >> ]
Tuple(as) == [ tuple |-> TRUE, a |-> as ]

Nt == Len(t) - 1

---------------------------------------------------------------------------
(* Fdm3t.__init__, lines 250-283 *)

\* lines 250-262: the horizontal and vertical conductivity taken from kxyz
Kh == kxyz.a[1]
Kv == IF ~ kxyz.tuple THEN kxyz.a[1]
      ELSE IF Len(kxyz.a) = 3 THEN kxyz.a[3]
      ELSE IF Len(kxyz.a) = 2 THEN kxyz.a[2]
      ELSE kxyz.a[1]

\* line 259
Fdm3tBadK ==
    /\ pc = "Fdm3t"
    /\ kxyz.tuple /\ Len(kxyz.a) \notin {1, 2, 3}
    /\ pc' = "raised"
    /\ err' = "ValueError: Can't understand input kxyz, use (Kx, Kz) tuple"
    /\ UNCHANGED << entry, gr, t, kxyz, kx, ky, kz, Ss, FQ, HI, IBOUND, epsilon,
                    eps, Cx, Cy, Cz, Cs, A, Phi, Q, Qs, Qx, Qy, Qz, idt >>

\* lines 264-268: the first assertion that fails, if any
Fdm3tAssertion ==
    IF Kh.shape # "grid" THEN "AssertionError: gr.shape != Kh.shape"
    ELSE IF Kv.shape # "grid" THEN "AssertionError: gr.shape != Kv.shape"
    ELSE IF FQ.shape # "grid" THEN "AssertionError: gr.shape != FQ.shape"
    ELSE IF Ss.shape # "grid" THEN "AssertionError: gr.shape != HI.shape"
    ELSE IF IBOUND.shape # "grid" THEN "AssertionError: gr.shape != IBOUND.shape"
    ELSE ""

Fdm3tAssertFail ==
    /\ pc = "Fdm3t"
    /\ ~ (kxyz.tuple /\ Len(kxyz.a) \notin {1, 2, 3})
    /\ Fdm3tAssertion # ""
    /\ pc' = "raised"
    /\ err' = Fdm3tAssertion
    /\ UNCHANGED << entry, gr, t, kxyz, kx, ky, kz, Ss, FQ, HI, IBOUND, epsilon,
                    eps, Cx, Cy, Cz, Cs, A, Phi, Q, Qs, Qx, Qy, Qz, idt >>

\* The epsilon that line 283 hands to fdm3t
Fdm3tEpsilon(e) == One

\* lines 270-283: the call fdm3t(kxyz=(self.Kh, self.Kh, self.Kv), ...,
\* epsilon=1.0), up to the unpacking of the tuple in fdm3t's line 70
Fdm3tCall ==
    /\ pc = "Fdm3t"
    /\ ~ (kxyz.tuple /\ Len(kxyz.a) \notin {1, 2, 3})
    /\ Fdm3tAssertion = ""
    /\ kx' = Kh /\ ky' = Kh /\ kz' = Kv
    /\ eps' = Fdm3tEpsilon(epsilon)
    /\ pc' = "check"
    /\ UNCHANGED << entry, err, gr, t, kxyz, Ss, FQ, HI, IBOUND, epsilon,
                    Cx, Cy, Cz, Cs, A, Phi, Q, Qs, Qx, Qy, Qz, idt >>

---------------------------------------------------------------------------
(* fdm3t, lines 66-196 *)

\* line 70: kx, ky, kz = kxyz with a tuple that has not three elements
UnpackFail ==
    /\ pc = "fdm3t"
    /\ kxyz.tuple /\ Len(kxyz.a) # 3
    /\ pc' = "raised"
    /\ err' = "ValueError: unpack"
    /\ UNCHANGED << entry, gr, t, kxyz, kx, ky, kz, Ss, FQ, HI, IBOUND, epsilon,
                    eps, Cx, Cy, Cz, Cs, A, Phi, Q, Qs, Qx, Qy, Qz, idt >>

\* lines 69-72 of a direct call
Unpack ==
    /\ pc = "fdm3t"
    /\ ~ (kxyz.tuple /\ Len(kxyz.a) # 3)
    /\ kx' = kxyz.a[1]
    /\ ky' = IF kxyz.tuple THEN kxyz.a[2] ELSE kxyz.a[1]
    /\ kz' = IF kxyz.tuple THEN kxyz.a[3] ELSE kxyz.a[1]
    /\ eps' = epsilon
    /\ pc' = "check"
    /\ UNCHANGED << entry, err, gr, t, kxyz, Ss, FQ, HI, IBOUND, epsilon,
                    Cx, Cy, Cz, Cs, A, Phi, Q, Qs, Qx, Qy, Qz, idt >>

\* lines 74-81: the first shape check that fails, if any
ShapeError ==
    IF kx.shape # "grid" THEN "AssertionError: shape of kx differs from that of model"
    ELSE IF ky.shape # "grid" THEN "AssertionError: shape of ky differs from that of model"
    ELSE IF kz.shape # "grid" THEN "AssertionError: shape of kz differs from that of model"
    ELSE IF Ss.shape # "grid" THEN "AssertionError: shape of Ss differs from that of model"
    ELSE ""

CheckFail ==
    /\ pc = "check"
    /\ ShapeError # ""
    /\ pc' = "raised"
    /\ err' = ShapeError
    /\ UNCHANGED << entry, gr, t, kxyz, kx, ky, kz, Ss, FQ, HI, IBOUND, epsilon,
                    eps, Cx, Cy, Cz, Cs, A, Phi, Q, Qs, Qx, Qy, Qz, idt >>

Check ==
    /\ pc = "check"
    /\ ShapeError = ""
    /\ pc' = "clamp"
    /\ UNCHANGED << entry, err, gr, t, kxyz, kx, ky, kz, Ss, FQ, HI, IBOUND, epsilon,
                    eps, Cx, Cy, Cz, Cs, A, Phi, Q, Qs, Qx, Qy, Qz, idt >>

\* lines 83-85: the caller's arrays are changed in place
ClampK ==
    /\ pc = "clamp"
    /\ kx' = Arr(kx.shape, Clamp(kx.v))
    /\ ky' = Arr(ky.shape, Clamp(ky.v))
    /\ kz' = Arr(kz.shape, Clamp(kz.v))
    /\ pc' = "setup"
    /\ UNCHANGED << entry, err, gr, t, kxyz, Ss, FQ, HI, IBOUND, epsilon,
                    eps, Cx, Cy, Cz, Cs, A, Phi, Q, Qs, Qx, Qy, Qz, idt >>

\* line 87: IBOUND of another size cannot be reshaped to (gr.nod,)
MaskFail ==
    /\ pc = "setup"
    /\ IBOUND.shape = "long"
    /\ pc' = "raised"
    /\ err' = "ValueError: cannot reshape array"
    /\ UNCHANGED << entry, gr, t, kxyz, kx, ky, kz, Ss, FQ, HI, IBOUND, epsilon,
                    eps, Cx, Cy, Cz, Cs, A, Phi, Q, Qs, Qx, Qy, Qz, idt >>

\* line 158: Phi[0] = HI with HI of another size
InitHeadFail ==
    /\ pc = "setup"
    /\ IBOUND.shape # "long"
    /\ HI.shape = "long"
    /\ pc' = "raised"
    /\ err' = "ValueError: could not broadcast input array"
    /\ UNCHANGED << entry, gr, t, kxyz, kx, ky, kz, Ss, FQ, HI, IBOUND, epsilon,
                    eps, Cx, Cy, Cz, Cs, A, Phi, Q, Qs, Qx, Qy, Qz, idt >>

\* lines 147-158: the head array, Nt+1 rows of zeros, with Phi[0] = HI
InitialHeads(g, hi, n) == [ i \in 0 .. n |-> IF i = 0 THEN hi ELSE Zeros(Cells(g)) ]

\* lines 87-163
Setup ==
    /\ pc = "setup"
    /\ IBOUND.shape # "long"
    /\ HI.shape # "long"
    /\ Cx' = CxOf(gr, kx.v, IBOUND.v)
    /\ Cy' = CyOf(gr, ky.v, IBOUND.v)
    /\ Cz' = CzOf(gr, kz.v, IBOUND.v)
    /\ Cs' = CsOf(gr, Ss.v, eps)
    /\ A' = Assemble(gr, Cx', Cy', Cz')
    /\ Phi' = InitialHeads(gr, HI.v, Nt)
    /\ Q' = [ i \in 0 .. Nt - 1 |-> Zeros(Cells(gr)) ]
    /\ Qs' = [ i \in 0 .. Nt - 1 |-> Zeros(Cells(gr)) ]
    /\ Qx' = [ i \in 0 .. Nt - 1 |-> Zeros(XFaces(gr)) ]
    /\ Qy' = [ i \in 0 .. Nt - 1 |-> Zeros(YFaces(gr)) ]
    /\ Qz' = [ i \in 0 .. Nt - 1 |-> Zeros(ZFaces(gr)) ]
    /\ idt' = 0
    /\ pc' = "loop"
    /\ UNCHANGED << entry, err, gr, t, kxyz, kx, ky, kz, Ss, FQ, HI, IBOUND,
                    epsilon, eps >>

\* np.diff(t)[idt]
Dt(i) == Rat(t[i + 2] - t[i + 1])

\* line 170 with FQ of another size: the operands cannot be broadcast
RhsFail ==
    /\ pc = "loop"
    /\ idt < Nt
    /\ FQ.shape = "long"
    /\ pc' = "raised"
    /\ err' = "ValueError: operands could not be broadcast together"
    /\ UNCHANGED << entry, gr, t, kxyz, kx, ky, kz, Ss, FQ, HI, IBOUND, epsilon,
                    eps, Cx, Cy, Cz, Cs, A, Phi, Q, Qs, Qx, Qy, Qz, idt >>

\* line 167: it = idt+1, the row of Phi that pass idt writes
It(i) == i + 1

\* lines 165-184
SolveStep ==
    /\ pc = "loop"
    /\ idt < Nt
    /\ FQ.shape # "long"
    /\ LET it == It(idt)
           row == SolveHeads(gr, A, Cs, FQ.v, IBOUND.v, Phi[it - 1], Phi[it], Dt(idt))
       IN  /\ Phi' = [ Phi EXCEPT ![it] = row ]
           /\ Q' = [ Q EXCEPT ![idt] = NetInflow(gr, A, row) ]
           /\ Qs' = [ Qs EXCEPT ![idt] = StorageRelease(gr, Cs, Phi[it - 1], row, Dt(idt)) ]
           /\ Qx' = [ Qx EXCEPT ![idt] = FlowX(gr, Cx, row) ]
           /\ Qy' = [ Qy EXCEPT ![idt] = FlowY(gr, Cy, row) ]
           /\ Qz' = [ Qz EXCEPT ![idt] = FlowZ(gr, Cz, row) ]
    /\ pc' = "update"
    /\ UNCHANGED << entry, err, gr, t, kxyz, kx, ky, kz, Ss, FQ, HI, IBOUND,
                    epsilon, eps, Cx, Cy, Cz, Cs, A, idt >>

\* NextPass leaving a pass out
SkipPass(i) == i + 2

\* line 165: enumerate() counts the passes
NextPass(i) == i + 1

\* lines 187-189, and on to the next pass
UpdateStep ==
    /\ pc = "update"
    /\ LET it == It(idt)
       IN  Phi' = [ Phi EXCEPT ![it] = UpdateHead(gr, IBOUND.v, Phi[it - 1], Phi[it], eps) ]
    /\ idt' = NextPass(idt)
    /\ pc' = "loop"
    /\ UNCHANGED << entry, err, gr, t, kxyz, kx, ky, kz, Ss, FQ, HI, IBOUND,
                    epsilon, eps, Cx, Cy, Cz, Cs, A, Q, Qs, Qx, Qy, Qz >>

\* lines 192-196: the loop is over and the arrays are returned
Return ==
    /\ pc = "loop"
    /\ idt >= Nt
    /\ pc' = "done"
    /\ UNCHANGED << entry, err, gr, t, kxyz, kx, ky, kz, Ss, FQ, HI, IBOUND,
                    epsilon, eps, Cx, Cy, Cz, Cs, A, Phi, Q, Qs, Qx, Qy, Qz, idt >>

Next ==
    \/ Fdm3tBadK
    \/ Fdm3tAssertFail
    \/ Fdm3tCall
    \/ UnpackFail
    \/ Unpack
    \/ CheckFail
    \/ Check
    \/ ClampK
    \/ MaskFail
    \/ InitHeadFail
    \/ Setup
    \/ RhsFail
    \/ SolveStep
    \/ UpdateStep
    \/ Return

---------------------------------------------------------------------------
(* Inputs *)

MaxHead == 1
MaxSteps == 2

\* A Cartesian grid of nz layers, ny rows and nx columns.  Column ix is
\* ix+1 wide, row iy is iy+1 wide and layer iz is iz+1 thick.
Cartesian(nz, ny, nx) ==
    LET g == [ nz |-> nz, ny |-> ny, nx |-> nx ]
    IN  [ nz |-> nz, ny |-> ny, nx |-> nx, axial |-> FALSE,
          dx |-> [ i \in 0 .. nx - 1 |-> Rat(i + 1) ],
          dy |-> [ i \in 0 .. ny - 1 |-> Rat(i + 1) ],
          DZ |-> [ c \in Cells(g) |-> Rat(IZ(g, c) + 1) ],
          Volume |-> [ c \in Cells(g) |-> Rat((IX(g, c) + 1) * (IY(g, c) + 1) * (IZ(g, c) + 1)) ],
          lnOuter |-> << >>, lnInner |-> << >>, ring |-> << >> ]

\* A Cartesian grid of unit cubes
Regular(nz, ny, nx) ==
    LET g == [ nz |-> nz, ny |-> ny, nx |-> nx ]
    IN  [ nz |-> nz, ny |-> ny, nx |-> nx, axial |-> FALSE,
          dx |-> [ i \in 0 .. nx - 1 |-> One ],
          dy |-> [ i \in 0 .. ny - 1 |-> One ],
          DZ |-> [ c \in Cells(g) |-> One ],
          Volume |-> [ c \in Cells(g) |-> One ],
          lnOuter |-> << >>, lnInner |-> << >>, ring |-> << >> ]

\* An axially symmetric grid of nz layers and nx rings (one row).  Ring ix
\* has the area 2 ix + 1 (in units of pi) and the logarithmic factors
\* 1/(ix+2) and 1/(ix+1); layer iz is iz+1 thick.
Axial(nz, nx) ==
    LET g == [ nz |-> nz, ny |-> 1, nx |-> nx ]
    IN  [ nz |-> nz, ny |-> 1, nx |-> nx, axial |-> TRUE,
          dx |-> [ i \in 0 .. nx - 1 |-> One ],
          dy |-> [ i \in 0 .. 0 |-> One ],
          DZ |-> [ c \in Cells(g) |-> Rat(IZ(g, c) + 1) ],
          Volume |-> [ c \in Cells(g) |-> Rat((2 * IX(g, c) + 1) * (IZ(g, c) + 1)) ],
          lnOuter |-> [ i \in 0 .. nx - 1 |-> Frac(1, i + 2) ],
          lnInner |-> [ i \in 0 .. nx - 1 |-> Frac(1, i + 1) ],
          ring |-> [ i \in 0 .. nx - 1 |-> Rat(2 * i + 1) ] ]

\* an array of integers as an array of numbers
Num(f) == [ c \in DOMAIN f |-> Rat(f[c]) ]
Uniform(g, n) == [ c \in Cells(g) |-> Rat(n) ]
\* n in cell 0 and nothing elsewhere
Point(g, n) == [ c \in Cells(g) |-> IF c = 0 THEN Rat(n) ELSE Zero ]
\* 0, below the floor, in cell 0 and 1 elsewhere
Sunk(g) == [ c \in Cells(g) |-> IF c = 0 THEN Zero ELSE One ]
\* c mod 3 in cell c: a field with values below the floor
Ramp(g) == [ c \in Cells(g) |-> Rat(c % 3) ]

\* the time vectors that start at 0 and take 1 to MaxSteps steps, each of
\* them of a size in StepSizes
StepSizes == { 1, 2 }

RECURSIVE Vectors(_)
Vectors(n) ==
    IF n = 0 THEN { << 0 >> }
    ELSE { Append(v, v[Len(v)] + d) : v \in Vectors(n - 1), d \in StepSizes }

TimeVectors == UNION { Vectors(n) : n \in 1 .. MaxSteps }

\* the boundary arrays with at least one active cell
Bounds(g) == { ib \in [ Cells(g) -> {-1, 0, 1} ] : \E c \in Cells(g) : ib[c] > 0 }

Heads(g) == { Num(h) : h \in [ Cells(g) -> 0 .. MaxHead ] }

\* the state at the call of entry point e
Start(e, g, tt, k, ss, fq, hi, ib, ep) ==
    /\ entry = e /\ pc = e /\ err = ""
    /\ gr = g /\ t = tt /\ kxyz = k
    /\ kx = None /\ ky = None /\ kz = None
    /\ Ss = ss /\ FQ = fq /\ HI = hi /\ IBOUND = ib
    /\ epsilon = ep /\ eps = Zero
    /\ Cx = Empty /\ Cy = Empty /\ Cz = Empty /\ Cs = Empty /\ A = Empty
    /\ Phi = Empty /\ Q = Empty /\ Qs = Empty
    /\ Qx = Empty /\ Qy = Empty /\ Qz = Empty
    /\ idt = 0

\* Calls that raise: one for each place where the code can raise
Faulty ==
    LET g == Cartesian(1, 1, 2)
        ok == Arr("grid", Uniform(g, 1))
        ib == Arr("grid", [ c \in Cells(g) |-> IF c = 0 THEN -1 ELSE 1 ])
        ibl == Arr("long", ib.v)
        bad == Arr("flat", Uniform(g, 1))
        long == Arr("long", Uniform(g, 1))
    IN  \/ Start("Fdm3t", g, << 0, 1 >>, Tuple(<< ok, ok, ok, ok >>), ok, ok, ok, ib, One)
        \/ Start("Fdm3t", g, << 0, 1 >>, Tuple(<< ok, bad >>), ok, ok, ok, ib, One)
        \/ Start("fdm3t", g, << 0, 1 >>, Tuple(<< ok, ok >>), ok, ok, ok, ib, One)
        \/ Start("fdm3t", g, << 0, 1 >>, Bare(bad), ok, ok, ok, ib, One)
        \/ Start("fdm3t", g, << 0, 1 >>, Bare(ok), ok, ok, ok, ibl, One)
        \/ Start("fdm3t", g, << 0, 1 >>, Bare(ok), ok, ok, long, ib, One)
        \/ Start("fdm3t", g, << 0, 1 >>, Bare(ok), ok, long, ok, ib, One)
        \/ Start("Fdm3t", g, << 0, 1 >>, Bare(ok), ok, ok, ok, ib, One)

\* the calls with the array arguments of gr.shape, on grid g
Calls(e, g, ibs, his, tts, ks, sss, fqs, eps_) ==
    \E ib \in ibs, hi \in his, tt \in tts, k \in ks, ss \in sss, fq \in fqs, ep \in eps_ :
        Start(e, g, tt, k, Arr("grid", ss), Arr("grid", fq), Arr("grid", hi),
              Arr("grid", ib), ep)

Storages(g) == { Uniform(g, 0), Uniform(g, 1) }
Sources(g) == { Uniform(g, 0), Point(g, 1) }
Epsilons == { One, Frac(2, 3) }

\* Direct calls of fdm3t: a row of three unit cells with every boundary
\* classification, and grids of two cells along each axis, Cartesian and axial
SmallGrids == { Cartesian(1, 2, 1), Cartesian(2, 1, 1), Axial(1, 2), Axial(2, 1) }

Init ==
    \/ Faulty
    \/ \E g \in { Regular(1, 1, 3) } :
          Calls("fdm3t", g, Bounds(g), Heads(g), TimeVectors,
                { Bare(Arr("grid", Sunk(g))) }, Storages(g), { Point(g, 1) }, Epsilons)
    \/ \E g \in SmallGrids :
          Calls("fdm3t", g, Bounds(g), Heads(g), TimeVectors,
                { Bare(Arr("grid", Ramp(g))) }, { Uniform(g, 1) }, Sources(g), Epsilons)

Spec == Init /\ [][Next]_vars

\* Calls of the class Fdm3t with every form of kxyz and several epsilon
Conductivities(g) ==
    { Bare(Arr("grid", Ramp(g))),
      Tuple(<< Arr("grid", Uniform(g, 1)) >>),
      Tuple(<< Arr("grid", Ramp(g)), Arr("grid", Uniform(g, 2)) >>),
      Tuple(<< Arr("grid", Uniform(g, 1)), Arr("grid", Ramp(g)), Arr("grid", Uniform(g, 2)) >>) }

InitFdm3t ==
    \/ Faulty
    \/ \E g \in { Regular(1, 1, 3), Cartesian(2, 1, 1) } :
          Calls("Fdm3t", g, Bounds(g), Heads(g), TimeVectors, Conductivities(g),
                { Uniform(g, 1) }, { Point(g, 1) }, { One, Frac(2, 3), Frac(3, 4) })

SpecFdm3t == InitFdm3t /\ [][Next]_vars

\* Calls of both entry points with every combination of array shapes
Shapes == { "grid", "flat", "long" }

InitShapes ==
    \/ Faulty
    \/ \E e \in { "fdm3t", "Fdm3t" }, g \in { Cartesian(1, 1, 2) } :
       \E sx \in Shapes, sy \in Shapes, sz \in Shapes, ss \in Shapes :
       \E sq \in Shapes, sh \in Shapes, sb \in Shapes, tup \in BOOLEAN :
          /\ ~ tup => (sy = sx /\ sz = sx)
          /\ Start(e, g, << 0, 1 >>,
                   IF tup THEN Tuple(<< Arr(sx, Ramp(g)), Arr(sy, Ramp(g)), Arr(sz, Ramp(g)) >>)
                          ELSE Bare(Arr(sx, Ramp(g))),
                   Arr(ss, Uniform(g, 1)), Arr(sq, Point(g, 1)),
                   Arr(sh, Num([ c \in Cells(g) |-> c % 2 ])),
                   Arr(sb, [ c \in Cells(g) |-> IF c = 0 THEN -1 ELSE 1 ]), One)

SpecShapes == InitShapes /\ [][Next]_vars

\* Direct calls on grids with faces along all three axes; one or two cells
\* are active, at most one is inactive and the others have a fixed head
FewBounds(g) ==
    { ib \in [ Cells(g) -> {-1, 0, 1} ] :
        /\ Cardinality({ c \in Cells(g) : ib[c] > 0 }) \in {1, 2}
        /\ Cardinality({ c \in Cells(g) : ib[c] = 0 }) <= 1 }

LargeGrids == { Cartesian(2, 2, 2), Cartesian(1, 2, 3), Cartesian(3, 2, 1), Axial(2, 3) }

InitGrids ==
    \/ Faulty
    \/ \E g \in LargeGrids :
          Calls("fdm3t", g, FewBounds(g), { Ramp(g) }, { << 0, 1 >> },
                { Bare(Arr("grid", Uniform(g, 1))),
                  Tuple(<< Arr("grid", Ramp(g)), Arr("grid", Uniform(g, 2)),
                           Arr("grid", Uniform(g, 1)) >>) },
                { Uniform(g, 1) }, { Point(g, 1) }, { One })

SpecGrids == InitGrids /\ [][Next]_vars

---------------------------------------------------------------------------
(* Properties.  Two numbers are "the same" when they are the same value,   *)
(* NaN included.                                                           *)

Active == { c \in Cells(gr) : IBOUND.v[c] > 0 }
Fixed == { c \in Cells(gr) : IBOUND.v[c] < 0 }
Inactive == { c \in Cells(gr) : IBOUND.v[c] = 0 }

\* C1: in the head field that fdm3t returns, the head of every cell with
\* IBOUND < 0 is that cell's HI at every time index 0..Nt.
FixedHeadInvariance ==
    pc = "done" => \A i \in 0 .. Nt : \A c \in Fixed : Phi[i][c] = HI.v[c]

\* A returned field of two steps with epsilon below 1, in which a fixed-head
\* cell holds a head other than 0 and an active cell has moved away from HI
FixedHeadWitness ==
    /\ pc = "done" /\ Nt >= 2 /\ eps # One
    /\ \E c \in Fixed : HI.v[c] # Zero
    /\ \E c \in Active : IsFinite(Phi[Nt][c]) /\ Phi[Nt][c] # HI.v[c]

\* C2: in the head field that fdm3t returns, the head of every cell with
\* IBOUND = 0 is NaN at every time index 0..Nt, index 0 included.
InactiveMasking ==
    pc = "done" => \A i \in 0 .. Nt : \A c \in Inactive : IsNaN(Phi[i][c])

\* The flow that leaves cell c through its faces, from the face flows of
\* one step: Qx is counted towards the higher column, Qy towards the lower
\* row and Qz towards the lower layer.
FaceOutflow(g, qx, qy, qz, c) ==
    LET east == IF c \in XFaces(g) THEN qx[c] ELSE Zero
        west == IF IX(g, c) > 0 THEN RNeg(qx[c - 1]) ELSE Zero
        south == IF c \in YFaces(g) THEN RNeg(qy[c]) ELSE Zero
        north == IF IY(g, c) > 0 THEN qy[c - g.nx] ELSE Zero
        below == IF c \in ZFaces(g) THEN RNeg(qz[c]) ELSE Zero
        above == IF IZ(g, c) > 0 THEN qz[c - g.nx * g.ny] ELSE Zero
    IN  RAdd(RAdd(RAdd(east, west), RAdd(south, north)), RAdd(below, above))

\* C3: after every step, at every active cell, the flows of the step
\* balance: the net flow Q is the signed sum of the face flows, and it is
\* made up of the source term FQ and the release from storage Qs.
Conservation ==
    pc = "update" =>
        \A c \in Active :
            /\ Q[idt][c] = FaceOutflow(gr, Qx[idt], Qy[idt], Qz[idt], c)
            /\ Q[idt][c] = RAdd(FQ.v[c], Qs[idt][c])

\* The balance of C3 where every prescribed head is 0
ConservationZeroHeads ==
    (pc = "update" /\ \A c \in Fixed : HI.v[c] = Zero) =>
        \A c \in Active :
            /\ Q[idt][c] = FaceOutflow(gr, Qx[idt], Qy[idt], Qz[idt], c)
            /\ Q[idt][c] = RAdd(FQ.v[c], Qs[idt][c])

\* the shapes of the arrays that the caller passed
InputShapes ==
    { kxyz.a[i].shape : i \in DOMAIN kxyz.a } \cup { Ss.shape, FQ.shape, HI.shape, IBOUND.shape }

ShapeMismatchErrors ==
    { "AssertionError: shape of kx differs from that of model",
      "AssertionError: shape of ky differs from that of model",
      "AssertionError: shape of kz differs from that of model",
      "AssertionError: shape of Ss differs from that of model",
      "AssertionError: gr.shape != Kh.shape",
      "AssertionError: gr.shape != Kv.shape",
      "AssertionError: gr.shape != FQ.shape",
      "AssertionError: gr.shape != HI.shape",
      "AssertionError: gr.shape != IBOUND.shape" }

\* C4: a call with an input array whose shape is not the grid's never gets
\* past the shape checks (so no array is clamped and no step is run), and
\* the error it raises is a shape mismatch error.
ShapeValidation ==
    (\E sh \in InputShapes : sh # "grid") =>
        /\ pc \in { "fdm3t", "Fdm3t", "check", "raised" }
        /\ pc = "raised" => err \in ShapeMismatchErrors

\* the time vector is [0, dt, 2 dt]
TwoEqualSteps == Len(t) = 3 /\ t[2] - t[1] = t[3] - t[2]

\* the head at the end of the single step of the call with [0, 2 dt]
SingleStepHead == HeadAt(gr, A, Cs, FQ.v, IBOUND.v, HI.v, << t[1], t[3] >>, eps, 1)

\* C5 as stated: the head at 2 dt of the call with [0, dt, 2 dt] is the head
\* at 2 dt of the call with [0, 2 dt], at every active cell.
RoundTrip ==
    (pc = "done" /\ TwoEqualSteps) => \A c \in Active : Phi[2][c] = SingleStepHead[c]

\* C5 as amended: it is so when there is no storage (Ss = 0 in every cell)
\* and epsilon = 1.
RoundTripSteady ==
    (pc = "done" /\ TwoEqualSteps /\ eps = One /\ \A c \in Cells(gr) : Ss.v[c] = Zero) =>
        \A c \in Active : Phi[2][c] = SingleStepHead[c]

\* A call with [0, 1, 2], no storage and epsilon = 1 whose heads have moved
RoundTripWitness ==
    /\ pc = "done" /\ TwoEqualSteps /\ eps = One
    /\ \A c \in Cells(gr) : Ss.v[c] = Zero
    /\ \E c \in Active : IsFinite(Phi[2][c]) /\ Phi[2][c] # HI.v[c]

\* C6: the heads that Fdm3t(..., epsilon=e) stores are those of fdm3t run on
\* the same arrays with implicitness e.
Fdm3tHonoursEpsilon ==
    (pc = "done" /\ entry = "Fdm3t") =>
        \A i \in 0 .. Nt : \A c \in Active :
            Phi[i][c] = HeadAt(gr, A, CsOf(gr, Ss.v, epsilon), FQ.v, IBOUND.v,
                               HI.v, t, epsilon, i)[c]

\* C7: with epsilon = 1 the update at the end of a step leaves the head of
\* every active cell as the linear solve of the step made it.
EpsilonOneNoOp ==
    [][ (pc = "update" /\ eps = One) =>
            \A c \in Active : Phi'[It(idt)][c] = Phi[It(idt)][c] ]_vars

\* A step with epsilon = 1 is over, and it has changed the head of an
\* active cell
EpsilonOneWitness ==
    /\ pc = "loop" /\ idt >= 1 /\ eps = One
    /\ \E c \in Active : IsFinite(Phi[idt][c]) /\ Phi[idt][c] # Phi[idt - 1][c]

\* C8: when a step has derived its flows, the row of heads they were
\* derived from holds HI at every fixed-head cell, and Qs is 0 there.
FlowsReadPrescribedHead ==
    pc = "update" =>
        \A c \in Fixed : Phi[It(idt)][c] = HI.v[c] /\ Qs[idt][c] = Zero

\* the conductance of the face between cells i and j (0 when they share none)
FaceConductance(i, j) ==
    LET lo == IF i < j THEN i ELSE j
        hi == IF i < j THEN j ELSE i
    IN  IF lo \in XFaces(gr) /\ hi = IE(gr, lo) THEN Cx[lo]
        ELSE IF lo \in YFaces(gr) /\ hi = IS(gr, lo) THEN Cy[lo]
        ELSE IF lo \in ZFaces(gr) /\ hi = IB(gr, lo) THEN Cz[lo]
        ELSE Zero

\* C9: the assembled matrix has minus the face conductance off the
\* diagonal, in both directions, the sum of the conductances of a cell's
\* faces on the diagonal, and rows that sum to zero.
MatrixConserves ==
    pc \in { "loop", "update", "done" } =>
        \A i \in Cells(gr) :
            /\ \A j \in Cells(gr) \ {i} : A.val[i][j] = RNeg(FaceConductance(i, j))
            /\ A.val[i][i] = RSum([ j \in Cells(gr) |-> FaceConductance(i, j) ], Cells(gr) \ {i})
            /\ RSum(A.val[i], Cells(gr)) = Zero

\* A matrix was assembled for a grid with faces along all three axes, with
\* an inactive cell and a conductance above 0 along each axis
MatrixWitness ==
    /\ pc = "done" /\ gr.nx > 1 /\ gr.ny > 1 /\ gr.nz > 1
    /\ Inactive # {}
    /\ \E c \in XFaces(gr) : Cx[c] # Zero
    /\ \E c \in YFaces(gr) : Cy[c] # Zero
    /\ \E c \in ZFaces(gr) : Cz[c] # Zero
    /\ \E c \in XFaces(gr) : Cx[c] = Zero

\* C10: the passes of the loop run in order; pass idt writes the head array
\* only in row idt+1 and the flow arrays only in row idt; and the loop ends
\* after len(t)-1 passes.
WriteDiscipline ==
    /\ [][ ( /\ pc \in { "loop", "update" }
             /\ pc' \in { "loop", "update" } ) =>
           ( /\ idt' = IF pc = "update" THEN idt + 1 ELSE idt
             /\ \A i \in 0 .. Nt : i # idt + 1 => Phi'[i] = Phi[i]
             /\ \A i \in 0 .. Nt - 1 : i # idt =>
                   /\ Q'[i] = Q[i] /\ Qs'[i] = Qs[i]
                   /\ Qx'[i] = Qx[i] /\ Qy'[i] = Qy[i] /\ Qz'[i] = Qz[i]
             /\ pc = "update" => << Q', Qs', Qx', Qy', Qz' >> = << Q, Qs, Qx, Qy, Qz >> ) ]_vars
    /\ [](pc = "loop" => idt <= Len(t) - 1)
    /\ [](pc = "done" => idt = Len(t) - 1)

\* A call of two steps has returned
WriteDisciplineWitness ==
    /\ pc = "done" /\ Len(t) = 3 /\ idt = 2
    /\ \E c \in Active : IsFinite(Phi[2][c]) /\ Phi[2][c] # Phi[1][c]

=============================================================================
